---- MODULE Spec2Model ----
(***************************************************************************)
(* Model of scripts/harvest_python_fixtures.py: the fixture harvest        *)
(* driver (main), its selector (select_scenarios), the search-path setup   *)
(* (ensure_python_path) and the loader/runner (run_scenario).              *)
(*                                                                         *)
(* Strings are TLA+ strings, paths are their str() form, Optional[...] is  *)
(* a record [isNone, val].  The scenario modules, their entry points and   *)
(* the filesystem are the environment: an import either fails or yields a  *)
(* module with or without the entry point, an entry point either returns   *)
(* or raises.                                                              *)
(***************************************************************************)
EXTENDS Integers, Sequences, FiniteSets, TLC

VARIABLES
    argv,          \* the command line: the four flags as given
    environ,       \* os.environ.get("CODEX_PYTHON_SDK_PATH")
    pc,            \* position of the process in main / run_scenario
    args,          \* the Namespace parse_args returns
    sys_path,      \* sys.path
    sys_modules,   \* sys.modules: loaded module name -> its attribute names
    dirs,          \* filesystem: existing directories (absolute paths)
    files,         \* filesystem: existing regular files (absolute paths)
    output_dir,    \* main's local output_dir
    scenarios,     \* main's local scenarios (the selected list)
    i,             \* position of the for loop in scenarios (1-based)
    output_path,   \* run_scenario's local output_path
    stdout,        \* lines printed so far
    calls,         \* entry-point invocations so far: [pos, name, kwargs]
    trace,         \* history of the run_scenario steps: [ev, pos]
    exit           \* how the process ended: [status, msg]

vars == <<argv, environ, pc, args, sys_path, sys_modules, dirs, files,
          output_dir, scenarios, i, output_path, stdout, calls, trace, exit>>

-----------------------------------------------------------------------------
(* Bounds *)

MaxScenarioArgs == 2
MaxRequested == 3

-----------------------------------------------------------------------------
(* Values *)

None == [isNone |-> TRUE, val |-> ""]
Some(v) == [isNone |-> FALSE, val |-> v]

Range(s) == {s[k] : k \in 1..Len(s)}

SeqsUpTo(S, n) == UNION {[1..m -> S] : m \in 0..n}

Scenario(name, module, description) ==
    [name |-> name, module |-> module, function |-> "record",
     description |-> description]

SCENARIOS ==
    << Scenario("thread_basic", "harvest_scenarios.thread_basic",
                "Simple thread start + single turn execution."),
       Scenario("thread_with_tool_retry", "harvest_scenarios.thread_with_tool_retry",
                "Thread that exercises tool invocation and auto-run retry loop."),
       Scenario("structured_output_success", "harvest_scenarios.structured_output_success",
                "Structured output with valid JSON payload."),
       Scenario("sandbox_approval_denied", "harvest_scenarios.sandbox_approval_denied",
                "Approval workflow where a command is denied.") >>

RegistryNames == {SCENARIOS[k].name : k \in 1..Len(SCENARIOS)}

-----------------------------------------------------------------------------
(* pathlib / os *)

Cwd == "/work"
DefaultOutput == "integration/fixtures/python"

\* pathlib.Path(s): the empty string is the current directory "."
Path(s) == IF s = "" THEN "." ELSE s

\* argparse's type=Path applied to an optional string
PathOpt(o) == IF o.isNone THEN None ELSE Some(Path(o.val))

\* Path.__truediv__
PathJoin(d, n) == IF d = "/" THEN d \o n ELSE d \o "/" \o n

\* Path.resolve() of a path without symlinks or ".." parts
Resolve(p) ==
    IF p = "." THEN Cwd
    ELSE IF SubSeq(p, 1, 1) = "/" THEN p
    ELSE PathJoin(Cwd, p)

SlashesOf(p) == {k \in 1..Len(p) : SubSeq(p, k, k) = "/"}

\* Path.parent of an absolute path
Parent(p) ==
    LET last == CHOOSE k \in SlashesOf(p) : \A m \in SlashesOf(p) : m <= k
    IN  IF last = 1 THEN "/" ELSE SubSeq(p, 1, last - 1)

\* Path.parents of an absolute path
Ancestors(p) ==
    IF p = "/" THEN {}
    ELSE {"/"} \cup {SubSeq(p, 1, k - 1) : k \in SlashesOf(p) \ {1}}

\* Path.exists()
Exists(p, d, f) == Resolve(p) \in d \cup f

\* Path.mkdir(parents=True) without exist_ok
mkdir_not_exist_ok(p, d, f) ==
    IF p \in d \/ p \in f \/ Ancestors(p) \cap f # {}
    THEN [raised |-> TRUE, dirs |-> d]
    ELSE [raised |-> FALSE, dirs |-> d \cup {p} \cup Ancestors(p)]

\* Path.mkdir(parents=True, exist_ok=True) of an absolute path
mkdir(p, d, f) ==
    IF p \in d
    THEN [raised |-> FALSE, dirs |-> d]
    ELSE IF p \in f \/ Ancestors(p) \cap f # {}
    THEN [raised |-> TRUE, dirs |-> d]
    ELSE [raised |-> FALSE, dirs |-> d \cup {p} \cup Ancestors(p)]

-----------------------------------------------------------------------------
(* str.join *)

RECURSIVE Join(_, _)
Join(names, sep) ==
    IF names = <<>> THEN ""
    ELSE IF Len(names) = 1 THEN names[1]
    ELSE names[1] \o sep \o Join(Tail(names), sep)

\* Python's `a in b` for strings
Contains(text, part) ==
    \E k \in 1..(Len(text) - Len(part) + 1) :
        SubSeq(text, k, k + Len(part) - 1) = part

-----------------------------------------------------------------------------
(* parse_args *)

parse_args(av, env) ==
    [python_sdk |-> IF av.python_sdk.isNone THEN PathOpt(env)
                    ELSE PathOpt(av.python_sdk),
     output     |-> IF av.output.isNone THEN Path(DefaultOutput)
                    ELSE Path(av.output.val),
     codex_path |-> PathOpt(av.codex_path),
     scenarios  |-> av.scenario]

-----------------------------------------------------------------------------
(* select_scenarios *)

\* lookup = {s.name: s for s in SCENARIOS}: a later entry wins
lookup ==
    [n \in RegistryNames |->
        SCENARIOS[CHOOSE k \in 1..Len(SCENARIOS) :
                    /\ SCENARIOS[k].name = n
                    /\ \A m \in 1..Len(SCENARIOS) :
                         SCENARIOS[m].name = n => m <= k]]

\* a selector that reports only the first unknown name
RECURSIVE unknown_first(_)
unknown_first(requested) ==
    IF requested = <<>> THEN <<>>
    ELSE IF Head(requested) \notin DOMAIN lookup
    THEN <<Head(requested)>>
    ELSE unknown_first(Tail(requested))

\* unknown = [name for name in requested if name not in lookup]
RECURSIVE unknown(_)
unknown(requested) ==
    IF requested = <<>> THEN <<>>
    ELSE IF Head(requested) \notin DOMAIN lookup
    THEN <<Head(requested)>> \o unknown(Tail(requested))
    ELSE unknown(Tail(requested))

\* a selector that answers in registration order, each descriptor once
selected_in_registry_order(requested) ==
    SelectSeq(SCENARIOS, LAMBDA s : s.name \in Range(requested))

\* [lookup[name] for name in requested]
RECURSIVE selected(_)
selected(requested) ==
    IF requested = <<>> THEN <<>>
    ELSE <<lookup[Head(requested)]>> \o selected(Tail(requested))

UnknownPrefix == "Unknown scenario(s): "

\* a selector that drops the unknown names instead of raising
select_scenarios_lenient(requested) ==
    IF requested = <<>>
    THEN [raised |-> FALSE, msg |-> "", value |-> SCENARIOS]
    ELSE [raised |-> FALSE, msg |-> "",
          value |-> selected(SelectSeq(requested,
                                       LAMBDA n : n \in DOMAIN lookup))]

select_scenarios(requested) ==
    IF requested = <<>>
    THEN [raised |-> FALSE, msg |-> "", value |-> SCENARIOS]
    ELSE IF unknown(requested) # <<>>
    THEN [raised |-> TRUE,
          msg |-> UnknownPrefix \o Join(unknown(requested), ", "),
          value |-> <<>>]
    ELSE [raised |-> FALSE, msg |-> "", value |-> selected(requested)]

-----------------------------------------------------------------------------
(* ensure_python_path *)

SdkRequiredMsg ==
    "Path to the Python SDK is required. Pass --python-sdk or set CODEX_PYTHON_SDK_PATH."
SdkMissingPrefix == "Python SDK path does not exist: "

\* a path setup that does not look at the disk
ensure_python_path_unchecked(python_sdk, path, d, f) ==
    IF python_sdk.isNone
    THEN [raised |-> TRUE, msg |-> SdkRequiredMsg, sys_path |-> path]
    ELSE [raised |-> FALSE, msg |-> "",
          sys_path |-> <<Resolve(python_sdk.val)>> \o path]

ensure_python_path(python_sdk, path, d, f) ==
    IF python_sdk.isNone
    THEN [raised |-> TRUE, msg |-> SdkRequiredMsg, sys_path |-> path]
    ELSE IF ~Exists(python_sdk.val, d, f)
    THEN [raised |-> TRUE, msg |-> SdkMissingPrefix \o python_sdk.val,
          sys_path |-> path]
    ELSE [raised |-> FALSE, msg |-> "",
          sys_path |-> <<Resolve(python_sdk.val)>> \o path]

-----------------------------------------------------------------------------
(* run_scenario helpers *)

\* one file name for every scenario
OutputPathShared(dir, name) == PathJoin(dir, "fixture.jsonl")

\* output_dir / f"{scenario.name}.jsonl"
OutputPath(dir, name) == PathJoin(dir, name \o ".jsonl")

\* the override always forwarded, None included
kwargs_always(codex_path) == [k \in {"codex_path"} |-> codex_path]

\* kwargs = {}; if codex_path: kwargs["codex_path"] = codex_path
kwargs(codex_path) ==
    IF ~codex_path.isNone
    THEN [k \in {"codex_path"} |-> codex_path]
    ELSE [k \in {} |-> None]

RunningLine(name, path) == "[harvest] running " \o name \o " -> " \o path
CompletedLine == "[harvest] completed"

MissingFunctionMsg(s) ==
    "Scenario " \o s.name \o " expected function " \o s.function
        \o " in module " \o s.module

Event(ev, pos) == [ev |-> ev, pos |-> pos]

Fail(status, msg) ==
    /\ pc' = "failed"
    /\ exit' = [status |-> status, msg |-> msg]

-----------------------------------------------------------------------------
(* The command lines and environments explored *)

ArgNames == RegistryNames \cup {"nope"}
SelectNames == RegistryNames \cup {"nope", "thread_basic2", ""}

SdkFlags == {None, Some(""), Some("gone")}
SdkEnvs == {None, Some("sdk")}
OutputFlags == {None, Some("out")}
CodexFlags == {None, Some(""), Some("codex-rs")}
OutKinds == {"absent", "dir", "file"}

BaseDirs == {"/", Cwd, PathJoin(Cwd, "sdk")}

\* the filesystem before the run, with the destination absent, a directory
\* or a regular file
InitFs(out, kind) ==
    /\ dirs = BaseDirs
              \cup (IF kind = "absent" THEN {} ELSE Ancestors(out))
              \cup (IF kind = "dir" THEN {out} ELSE {})
    /\ files = IF kind = "file" THEN {out} ELSE {}

InitLocals ==
    /\ sys_modules = [m \in {} |-> {}]
    /\ scenarios = <<>>
    /\ i = 0
    /\ output_path = ""
    /\ stdout = <<>>
    /\ calls = <<>>
    /\ trace = <<>>
    /\ exit = [status |-> "running", msg |-> ""]

Init ==
    /\ argv \in [python_sdk : SdkFlags, output : OutputFlags,
                 codex_path : CodexFlags,
                 scenario : SeqsUpTo(ArgNames, MaxScenarioArgs)]
    /\ environ \in SdkEnvs
    /\ pc = "parse_args"
    /\ args = [python_sdk |-> None, output |-> "", codex_path |-> None,
               scenarios |-> <<>>]
    /\ sys_path = <<>>
    /\ \E kind \in OutKinds :
          InitFs(Resolve(parse_args(argv, environ).output), kind)
    /\ output_dir = ""
    /\ InitLocals

-----------------------------------------------------------------------------
(* main *)

\* a loop that stops one position early
LoopPcShort(list, k) ==
    IF k >= Len(list) THEN "print_completed" ELSE "run_import"

\* for scenario in scenarios: the next position, or the line after the loop
LoopPc(list, k) == IF k > Len(list) THEN "print_completed" ELSE "run_import"

\* args = parse_args()
ParseArgs ==
    /\ pc = "parse_args"
    /\ args' = parse_args(argv, environ)
    /\ pc' = "ensure_python_path"
    /\ UNCHANGED <<argv, environ, sys_path, sys_modules, dirs, files,
                   output_dir, scenarios, i, output_path, stdout, calls,
                   trace, exit>>

\* ensure_python_path(args.python_sdk)
EnsurePythonPath ==
    /\ pc = "ensure_python_path"
    /\ LET r == ensure_python_path(args.python_sdk, sys_path, dirs, files)
       IN  IF r.raised
           THEN Fail("SystemExit", r.msg) /\ UNCHANGED sys_path
           ELSE /\ sys_path' = r.sys_path
                /\ pc' = "resolve_output"
                /\ UNCHANGED exit
    /\ UNCHANGED <<argv, environ, args, sys_modules, dirs, files, output_dir,
                   scenarios, i, output_path, stdout, calls, trace>>

\* output_dir = args.output.resolve()
ResolveOutput ==
    /\ pc = "resolve_output"
    /\ output_dir' = Resolve(args.output)
    /\ pc' = "select_scenarios"
    /\ UNCHANGED <<argv, environ, args, sys_path, sys_modules, dirs, files,
                   scenarios, i, output_path, stdout, calls, trace, exit>>

\* scenarios = select_scenarios(args.scenarios)
SelectScenarios ==
    /\ pc = "select_scenarios"
    /\ LET r == select_scenarios(args.scenarios)
       IN  IF r.raised
           THEN Fail("SystemExit", r.msg) /\ UNCHANGED <<scenarios, i>>
           ELSE /\ scenarios' = r.value
                /\ i' = 1
                /\ pc' = LoopPc(r.value, 1)
                /\ UNCHANGED exit
    /\ UNCHANGED <<argv, environ, args, sys_path, sys_modules, dirs, files,
                   output_dir, output_path, stdout, calls, trace>>

\* print("[harvest] completed")
PrintCompleted ==
    /\ pc = "print_completed"
    /\ stdout' = Append(stdout, CompletedLine)
    /\ pc' = "done"
    /\ exit' = [status |-> "ok", msg |-> ""]
    /\ UNCHANGED <<argv, environ, args, sys_path, sys_modules, dirs, files,
                   output_dir, scenarios, i, output_path, calls, trace>>

-----------------------------------------------------------------------------
(* run_scenario(scenario, output_dir, args.codex_path), scenario = scenarios[i] *)

\* module = importlib.import_module(scenario.module): the module is in
\* sys.modules already, or it loads, with or without the entry point
RunImport ==
    /\ pc = "run_import"
    /\ LET m == scenarios[i].module
       IN  IF m \in DOMAIN sys_modules
           THEN UNCHANGED sys_modules
           ELSE \E attrs \in SUBSET {scenarios[i].function} :
                   sys_modules' = [n \in DOMAIN sys_modules \cup {m} |->
                                     IF n = m THEN attrs ELSE sys_modules[n]]
    /\ trace' = Append(trace, Event("import", i))
    /\ pc' = "run_getattr"
    /\ UNCHANGED <<argv, environ, args, sys_path, dirs, files, output_dir,
                   scenarios, i, output_path, stdout, calls, exit>>

\* importlib.import_module raises: the module cannot be located or loaded
RunImportError ==
    /\ pc = "run_import"
    /\ scenarios[i].module \notin DOMAIN sys_modules
    /\ trace' = Append(trace, Event("import", i))
    /\ Fail("ImportError", scenarios[i].module)
    /\ UNCHANGED <<argv, environ, args, sys_path, sys_modules, dirs, files,
                   output_dir, scenarios, i, output_path, stdout, calls>>

\* the destination made before the entry point is looked up
RunGetattrAfterMkdir ==
    /\ pc = "run_getattr"
    /\ IF scenarios[i].function \notin sys_modules[scenarios[i].module]
       THEN Fail("SystemExit", MissingFunctionMsg(scenarios[i]))
       ELSE pc' = "run_mkdir" /\ UNCHANGED exit
    /\ dirs' = mkdir(output_dir, dirs, files).dirs
    /\ trace' = Append(trace, Event("getattr", i))
    /\ UNCHANGED <<argv, environ, args, sys_path, sys_modules, files,
                   output_dir, scenarios, i, output_path, stdout, calls>>

\* handler = getattr(module, scenario.function, None); if handler is None: raise
RunGetattr ==
    /\ pc = "run_getattr"
    /\ IF scenarios[i].function \notin sys_modules[scenarios[i].module]
       THEN Fail("SystemExit", MissingFunctionMsg(scenarios[i]))
       ELSE pc' = "run_mkdir" /\ UNCHANGED exit
    /\ trace' = Append(trace, Event("getattr", i))
    /\ UNCHANGED <<argv, environ, args, sys_path, sys_modules, dirs, files,
                   output_dir, scenarios, i, output_path, stdout, calls>>

\* output_dir.mkdir(...); output_path = ...; output_path.parent.mkdir(...)
RunMkdir ==
    /\ pc = "run_mkdir"
    /\ LET r1 == mkdir(output_dir, dirs, files)
           op == OutputPath(output_dir, scenarios[i].name)
           r2 == mkdir(Parent(op), r1.dirs, files)
       IN  IF r1.raised
           THEN Fail("OSError", output_dir) /\ UNCHANGED <<dirs, output_path>>
           ELSE /\ output_path' = op
                /\ dirs' = r2.dirs
                /\ IF r2.raised
                   THEN Fail("OSError", Parent(op))
                   ELSE pc' = "run_print" /\ UNCHANGED exit
    /\ trace' = Append(trace, Event("mkdir", i))
    /\ UNCHANGED <<argv, environ, args, sys_path, sys_modules, files,
                   output_dir, scenarios, i, stdout, calls>>

\* kwargs = ...; print(f"[harvest] running {scenario.name} -> {output_path}")
RunPrint ==
    /\ pc = "run_print"
    /\ stdout' = Append(stdout, RunningLine(scenarios[i].name, output_path))
    /\ trace' = Append(trace, Event("print", i))
    /\ pc' = "run_call"
    /\ UNCHANGED <<argv, environ, args, sys_path, sys_modules, dirs, files,
                   output_dir, scenarios, i, output_path, calls, exit>>

\* handler(output_path=output_path, **kwargs): the entry point is entered
RunCall ==
    /\ pc = "run_call"
    /\ LET kw == kwargs(args.codex_path)
       IN  calls' = Append(calls,
              [pos |-> i, name |-> scenarios[i].name,
               kwargs |-> [k \in {"output_path"} \cup DOMAIN kw |->
                             IF k = "output_path" THEN Some(output_path)
                             ELSE kw[k]]])
    /\ trace' = Append(trace, Event("call", i))
    /\ pc' = "in_handler"
    /\ UNCHANGED <<argv, environ, args, sys_path, sys_modules, dirs, files,
                   output_dir, scenarios, i, output_path, stdout, exit>>

\* the entry point returns, having written its transcript or not (nothing
\* checks that the file was created); the loop moves on
HandlerReturn ==
    /\ pc = "in_handler"
    /\ \E wrote \in BOOLEAN :
          files' = IF wrote THEN files \cup {output_path} ELSE files
    /\ trace' = Append(trace, Event("return", i))
    /\ i' = i + 1
    /\ pc' = LoopPc(scenarios, i + 1)
    /\ UNCHANGED <<argv, environ, args, sys_path, sys_modules, dirs,
                   output_dir, scenarios, output_path, stdout, calls, exit>>

\* a failure isolated per scenario: the loop goes on to the next one
HandlerRaiseIsolated ==
    /\ pc = "in_handler"
    /\ trace' = Append(trace, Event("raise", i))
    /\ i' = i + 1
    /\ pc' = LoopPc(scenarios, i + 1)
    /\ UNCHANGED <<argv, environ, args, sys_path, sys_modules, dirs, files,
                   output_dir, scenarios, output_path, stdout, calls, exit>>

\* the entry point raises; the exception propagates out of main
HandlerRaise ==
    /\ pc = "in_handler"
    /\ trace' = Append(trace, Event("raise", i))
    /\ Fail("ScenarioError", scenarios[i].name)
    /\ UNCHANGED <<argv, environ, args, sys_path, sys_modules, dirs, files,
                   output_dir, scenarios, i, output_path, stdout, calls>>

Next ==
    \/ ParseArgs
    \/ EnsurePythonPath
    \/ ResolveOutput
    \/ SelectScenarios
    \/ RunImport
    \/ RunImportError
    \/ RunGetattr
    \/ RunMkdir
    \/ RunPrint
    \/ RunCall
    \/ HandlerReturn
    \/ HandlerRaise
    \/ PrintCompleted

Spec == Init /\ [][Next]_vars

-----------------------------------------------------------------------------
(* select_scenarios on its own: the process stands at line 141 with the     *)
(* default configuration and any requested list                             *)

InitSelect ==
    /\ argv \in [python_sdk : {None}, output : {None}, codex_path : {None},
                 scenario : SeqsUpTo(SelectNames, MaxRequested)]
    /\ environ = Some("sdk")
    /\ pc = "select_scenarios"
    /\ args = parse_args(argv, environ)
    /\ sys_path = <<Resolve(Path("sdk"))>>
    /\ InitFs(Resolve(Path(DefaultOutput)), "absent")
    /\ output_dir = Resolve(Path(DefaultOutput))
    /\ InitLocals

NextSelect == SelectScenarios

SpecSelect == InitSelect /\ [][NextSelect]_vars

-----------------------------------------------------------------------------
(* Vocabulary of the properties *)

BeforeSelection == {"parse_args", "ensure_python_path", "resolve_output",
                    "select_scenarios"}

\* the requested names that the registry does not hold
Absent(requested) == SelectSeq(requested, LAMBDA n : n \notin RegistryNames)

HasAbsent(requested) == \E k \in 1..Len(requested) : requested[k] \notin RegistryNames

NoModuleLoaded == DOMAIN sys_modules = {}

\* number of events of one kind among the first n of the history
Count(ev, n) == Cardinality({t \in 1..n : trace[t].ev = ev})

StartsWith(text, prefix) ==
    Len(text) >= Len(prefix) /\ SubSeq(text, 1, Len(prefix)) = prefix

PathGiven(j) == calls[j].kwargs["output_path"].val

-----------------------------------------------------------------------------
(* C1: fail-fast selection.  In a run whose requested list holds a name the *)
(* registry does not have, no module is ever loaded, no entry point is      *)
(* invoked and no line is printed; the run never gets past selection, and   *)
(* when it reaches selection it ends there with the unknown-scenario error, *)
(* also when valid names stand before the unknown one.                      *)
C1_FailFastSelection ==
    HasAbsent(argv.scenario) =>
        /\ NoModuleLoaded
        /\ trace = <<>>
        /\ calls = <<>>
        /\ stdout = <<>>
        /\ scenarios = <<>>
        /\ pc \in BeforeSelection \cup {"failed"}
        /\ (pc = "failed" /\ sys_path # <<>>) =>
              /\ exit.status = "SystemExit"
              /\ StartsWith(exit.msg, UnknownPrefix)

C1_Witness ==
    /\ pc = "failed"
    /\ sys_path # <<>>
    /\ Len(argv.scenario) = 2
    /\ argv.scenario[1] \in RegistryNames
    /\ argv.scenario[2] \notin RegistryNames
    /\ StartsWith(exit.msg, UnknownPrefix)

-----------------------------------------------------------------------------
(* C2: sequential, in-order execution that stops at the first failure.  The *)
(* j-th invocation is the entry point of s[j]; it is made only after the    *)
(* invocations of s[1..j-1] have returned; at most one entry point is open  *)
(* at a time; a raising entry point is the last event of the run; and any   *)
(* failure leaves the driver in the state Failed, from which no step is     *)
(* possible (no later entry point, no retry).                               *)
C2_SequentialStopAtFirstFailure ==
    /\ \A j \in 1..Len(calls) :
          /\ calls[j].pos = j
          /\ calls[j].name = scenarios[j].name
    /\ \A t \in 1..Len(trace) :
          /\ trace[t].ev = "call" =>
                /\ Count("call", t - 1) = trace[t].pos - 1
                /\ Count("return", t - 1) = trace[t].pos - 1
                /\ Count("raise", t - 1) = 0
          /\ trace[t].ev = "return" => Count("return", t - 1) = trace[t].pos - 1
          /\ trace[t].ev = "raise" => t = Len(trace) /\ pc = "failed"
    /\ Count("call", Len(trace)) - Count("return", Len(trace))
          - Count("raise", Len(trace)) = IF pc = "in_handler" THEN 1 ELSE 0
    /\ exit.status \notin {"running", "ok"} <=> pc = "failed"
    /\ pc = "failed" =>
          /\ ~ENABLED Next
          /\ Len(calls) <= i
          /\ \A j \in 1..Len(calls) : calls[j].pos <= i

C2_Witness ==
    /\ pc = "failed"
    /\ exit.status = "ScenarioError"
    /\ Len(scenarios) = 4
    /\ Len(calls) = 2
    /\ Count("return", Len(trace)) = 1

-----------------------------------------------------------------------------
(* C3: the line "[harvest] completed" is printed only when every position   *)
(* of the selected list had its entry point invoked exactly once and every  *)
(* invocation returned; a failed run never prints it.                       *)
C3_CompletedOnlyAfterAll ==
    /\ CompletedLine \in Range(stdout) =>
          /\ pc = "done"
          /\ exit.status = "ok"
          /\ \A p \in 1..Len(scenarios) :
                /\ Cardinality({j \in 1..Len(calls) : calls[j].pos = p}) = 1
                /\ Cardinality({t \in 1..Len(trace) :
                                  trace[t] = Event("return", p)}) = 1
          /\ Len(calls) = Len(scenarios)
          /\ Count("raise", Len(trace)) = 0
    /\ pc = "failed" => CompletedLine \notin Range(stdout)

C3_Witness ==
    /\ pc = "done"
    /\ CompletedLine \in Range(stdout)
    /\ Len(scenarios) = 2
    /\ scenarios[1] = scenarios[2]
    /\ Len(calls) = 2

-----------------------------------------------------------------------------
(* C4: for a request whose names are all registered, select_scenarios does  *)
(* not fail; the empty request gives the whole registry in registration     *)
(* order, and any other request gives, position by position, the registered *)
(* descriptor of the name requested there (same length, repeats kept).      *)
C4_SelectorResult ==
    (pc # "select_scenarios" /\ ~HasAbsent(args.scenarios)) =>
        /\ pc # "failed"
        /\ IF args.scenarios = <<>>
           THEN /\ scenarios = SCENARIOS
                /\ Len(scenarios) = Cardinality(RegistryNames)
           ELSE /\ Len(scenarios) = Len(args.scenarios)
                /\ \A k \in 1..Len(scenarios) :
                      /\ scenarios[k] \in Range(SCENARIOS)
                      /\ scenarios[k].name = args.scenarios[k]

C4_Witness ==
    /\ pc = "run_import"
    /\ args.scenarios = <<"sandbox_approval_denied", "thread_basic",
                          "sandbox_approval_denied">>
    /\ Len(scenarios) = 3

-----------------------------------------------------------------------------
(* C5 as stated: a request with an absent name makes select_scenarios fail, *)
(* and the message contains every absent name and no registered name.       *)
C5_Original ==
    (pc # "select_scenarios" /\ HasAbsent(args.scenarios)) =>
        /\ pc = "failed"
        /\ exit.status = "SystemExit"
        /\ scenarios = <<>>
        /\ \A n \in Range(Absent(args.scenarios)) : Contains(exit.msg, n)
        /\ \A n \in RegistryNames : ~Contains(exit.msg, n)

(* C5 amended: a request with an absent name makes select_scenarios fail    *)
(* without returning a list; the one message is "Unknown scenario(s): "     *)
(* followed by exactly the absent names, in request order, joined by ", ";  *)
(* it contains every absent name, and a registered name occurs in it only   *)
(* inside the text of an absent name.                                       *)
C5_AggregatedUnknown ==
    (pc # "select_scenarios" /\ HasAbsent(args.scenarios)) =>
        /\ pc = "failed"
        /\ exit.status = "SystemExit"
        /\ scenarios = <<>>
        /\ \A n \in Range(Absent(args.scenarios)) : Contains(exit.msg, n)
        /\ exit.msg = UnknownPrefix \o Join(Absent(args.scenarios), ", ")
        /\ \A n \in RegistryNames :
              Contains(exit.msg, n) =>
                 \E a \in Range(Absent(args.scenarios)) : Contains(a, n)

C5_Witness ==
    /\ pc = "failed"
    /\ args.scenarios = <<"nope", "thread_basic", "thread_basic2">>
    /\ exit.msg = "Unknown scenario(s): nope, thread_basic2"

-----------------------------------------------------------------------------
(* C6: when the SDK path comes neither from --python-sdk nor from the       *)
(* environment, or the path given does not exist on disk, sys.path is never *)
(* changed, selection never happens, no module is loaded and no entry point *)
(* invoked: the run ends in ensure_python_path with the SDK-path error.     *)
SdkArg == IF argv.python_sdk.isNone THEN environ ELSE argv.python_sdk

SdkMissing ==
    \/ SdkArg.isNone
    \/ Resolve(Path(SdkArg.val)) \notin dirs \cup files

C6_MissingSdkAbortsFirst ==
    SdkMissing =>
        /\ sys_path = <<>>
        /\ scenarios = <<>>
        /\ i = 0
        /\ NoModuleLoaded
        /\ trace = <<>>
        /\ calls = <<>>
        /\ stdout = <<>>
        /\ pc \in {"parse_args", "ensure_python_path", "failed"}
        /\ pc = "failed" =>
              /\ exit.status = "SystemExit"
              /\ IF SdkArg.isNone
                 THEN exit.msg = SdkRequiredMsg
                 ELSE exit.msg = SdkMissingPrefix \o SdkArg.val

C6_Witness ==
    /\ pc = "failed"
    /\ argv.python_sdk = Some("gone")
    /\ environ = Some("sdk")
    /\ argv.scenario # <<>>
    /\ exit.msg = "Python SDK path does not exist: gone"

-----------------------------------------------------------------------------
(* C7: every invocation carries the named parameter output_path; it carries *)
(* codex_path exactly when --codex-path was given, and then with the value  *)
(* run_scenario received, never with None.                                  *)
C7_OverrideForwarding ==
    \A j \in 1..Len(calls) :
        LET kw == calls[j].kwargs
        IN  /\ "output_path" \in DOMAIN kw
            /\ DOMAIN kw \subseteq {"output_path", "codex_path"}
            /\ "codex_path" \in DOMAIN kw <=> ~argv.codex_path.isNone
            /\ "codex_path" \in DOMAIN kw =>
                  /\ kw["codex_path"] = args.codex_path
                  /\ ~kw["codex_path"].isNone

C7_Witness ==
    /\ Len(calls) = 2
    /\ argv.codex_path.isNone
    /\ DOMAIN calls[2].kwargs = {"output_path"}

-----------------------------------------------------------------------------
(* C8: while an entry point runs the destination directory exists, and the  *)
(* path every invocation received is <destination>/<name>.jsonl for its     *)
(* descriptor; making the directory fails only when the destination is not  *)
(* a directory, so never once an earlier scenario of the run was invoked,   *)
(* the same descriptor run again included.                                  *)
C8_DirectoryAndOutputPath ==
    /\ pc = "in_handler" =>
          /\ output_dir \in dirs
          /\ Ancestors(output_dir) \subseteq dirs
          /\ calls[Len(calls)].pos = i
    /\ \A j \in 1..Len(calls) :
          /\ output_dir = Resolve(args.output)
          /\ PathGiven(j) = output_dir \o "/" \o scenarios[j].name \o ".jsonl"
    /\ exit.status = "OSError" => (output_dir \notin dirs /\ calls = <<>>)

C8_Witness ==
    /\ pc = "in_handler"
    /\ Len(calls) = 2
    /\ calls[1].name = calls[2].name
    /\ PathGiven(2) = "/work/integration/fixtures/python/thread_basic.jsonl"

-----------------------------------------------------------------------------
(* C9 as stated: two invocations at different positions of the selected     *)
(* list are given different output paths.                                   *)
C9_Original ==
    \A j, k \in 1..Len(calls) : j # k => PathGiven(j) # PathGiven(k)

(* C9 amended: two invocations are given the same output path exactly when  *)
(* they run the same scenario name; invocations of different scenarios get  *)
(* different paths, and a run of the whole registry gets pairwise different *)
(* paths.                                                                   *)
C9_DistinctNamesDistinctPaths ==
    /\ \A j, k \in 1..Len(calls) :
          PathGiven(j) = PathGiven(k) <=> calls[j].name = calls[k].name
    /\ args.scenarios = <<>> =>
          \A j, k \in 1..Len(calls) : j # k => PathGiven(j) # PathGiven(k)

C9_Witness ==
    /\ Len(calls) = 4
    /\ args.scenarios = <<>>
    /\ PathGiven(1) # PathGiven(4)

-----------------------------------------------------------------------------
(* C10: loading is lazy.  The import for position k is attempted only when  *)
(* the entry points of positions 1..k-1 have returned, one position at a    *)
(* time; a run that fails at module load or entry-point lookup at position  *)
(* k keeps the k-1 earlier runs (their invocations and lines) and has a     *)
(* transcript on disk only at a path given to one of them; and             *)
(* the failing step itself leaves the filesystem, the printed lines and the *)
(* invocations as they were.                                                *)
LoadFailure ==
    /\ pc = "failed"
    /\ \/ exit.status = "ImportError"
       \/ exit.status = "SystemExit" /\ StartsWith(exit.msg, "Scenario ")

C10_LazyInv ==
    /\ \A t \in 1..Len(trace) :
          trace[t].ev = "import" =>
             /\ Count("import", t - 1) = trace[t].pos - 1
             /\ Count("return", t - 1) = trace[t].pos - 1
    /\ LoadFailure =>
          /\ Len(calls) = i - 1
          /\ Len(stdout) = i - 1
          /\ Count("return", Len(trace)) = i - 1
          /\ Count("mkdir", Len(trace)) = i - 1
          /\ \A j \in 1..(i - 1) : calls[j].name = scenarios[j].name
          /\ {output_dir \o "/" \o n \o ".jsonl" : n \in RegistryNames} \cap files
                \subseteq {PathGiven(j) : j \in 1..(i - 1)}

C10_Frame ==
    (pc \in {"run_import", "run_getattr"} /\ pc' = "failed") =>
        /\ dirs' = dirs
        /\ files' = files
        /\ stdout' = stdout
        /\ calls' = calls

C10_LazyLoading == []C10_LazyInv /\ [][C10_Frame]_vars

C10_Witness ==
    /\ LoadFailure
    /\ exit.status = "SystemExit"
    /\ i = 3
    /\ Len(calls) = 2
    /\ PathGiven(1) \in files
    /\ PathGiven(2) \in files

====
